---- MODULE Spec2Model ----
(***************************************************************************)
(* Model of ultralytics/solutions/heatmap.py (class Heatmap) and           *)
(* ultralytics/solutions/speed_estimation.py (class SpeedEstimator).        *)
(*                                                                         *)
(* Numbers.  Pixel coordinates of boxes are integers.  A box centroid      *)
(* ((x1+x2)/2, (y1+y2)/2) may be a half integer, so every stored position  *)
(* (track_history entries, prev_position) is kept DOUBLED: the pair        *)
(* <<x1+x2, y1+y2>>.  Heatmap cells are exact fixed-point numbers: the     *)
(* integer n stands for the value n / Scale(decay_factor).                 *)
(***************************************************************************)
EXTENDS Integers, Sequences, FiniteSets, TLC

\* ------------------------------------------------------------------ bounds
ImW == 4
ImH == 4
MaxFrames == 3
MaxDets == 2
MaxHistFrames == 32
MaxMoves == 1
MaxCalls == 3

\* ------------------------------------------------------- program constants
HistCap == 30
HeatAdd == 2

Classes == {0, 1}
names == [c \in Classes |-> IF c = 0 THEN "person" ELSE "car"]
TrackIds == {1, 2}

\* A box is <<x1, y1, x2, y2>> (xyxy), x1 < x2, y1 < y2, inside the image.
Boxes == { <<0, 0, 2, 2>>, <<1, 1, 4, 4>>, <<2, 2, 4, 4>> }

\* count_reg_pts: none = TRUE stands for Python's None.
NoRegion == [none |-> TRUE, pts |-> <<>>]
LineRegion == [none |-> FALSE, pts |-> << <<0, 2>>, <<4, 2>> >>]
PolyRegion == [none |-> FALSE, pts |-> << <<0, 0>>, <<3, 0>>, <<3, 3>>, <<0, 3>> >>]
\* a region of one point: neither a line nor a polygon
PointRegion == [none |-> FALSE, pts |-> << <<2, 2>> >>]
Regions == {NoRegion, LineRegion, PolyRegion, PointRegion}

\* decay_factor as a fraction <<numerator, denominator>>.
DecayFactors == { <<1, 2>> }

Cells == (0..(ImW - 1)) \X (0..(ImH - 1))

\* ------------------------------------------------------------ arithmetic
RECURSIVE Pow(_, _)
Pow(b, n) ==
    IF n = 0 THEN 1 ELSE b * Pow(b, n - 1)

Min(a, b) ==
    IF a <= b THEN a ELSE b

Max(a, b) ==
    IF a >= b THEN a ELSE b

\* One unit of heatmap value is 1/Scale(d): MaxFrames decays by d stay exact.
Scale(d) ==
    Pow(d[2], MaxFrames)

\* ------------------------------------------------------------- geometry
\* Twice the signed area of triangle o, a, b.
Cross(o, a, b) ==
    (a[1] - o[1]) * (b[2] - o[2]) - (a[2] - o[2]) * (b[1] - o[1])

OnSegment(p, a, b) ==
    /\ Cross(a, b, p) = 0
    /\ Min(a[1], b[1]) <= p[1] /\ p[1] <= Max(a[1], b[1])
    /\ Min(a[2], b[2]) <= p[2] /\ p[2] <= Max(a[2], b[2])

\* LineString([p1, p2]).intersects(LineString([q1, q2])): the closed segments
\* share a point (touching at an endpoint and collinear overlap included).
SegIntersects(p1, p2, q1, q2) ==
    LET d1 == Cross(q1, q2, p1)
        d2 == Cross(q1, q2, p2)
        d3 == Cross(p1, p2, q1)
        d4 == Cross(p1, p2, q2)
    IN  \/ /\ (d1 > 0 /\ d2 < 0) \/ (d1 < 0 /\ d2 > 0)
           /\ (d3 > 0 /\ d4 < 0) \/ (d3 < 0 /\ d4 > 0)
        \/ OnSegment(p1, q1, q2)
        \/ OnSegment(p2, q1, q2)
        \/ OnSegment(q1, p1, p2)
        \/ OnSegment(q2, p1, p2)

Dbl(p) ==
    <<2 * p[1], 2 * p[2]>>

NextIdx(pts, i) ==
    IF i = Len(pts) THEN 1 ELSE i + 1

\* Polygon(pts).contains(Point(p)): p is in the interior; a point of the
\* boundary is not contained.  p is doubled, pts are not.
PolyContains(pts, p) ==
    LET n == Len(pts)
        A(i) == Dbl(pts[i])
        B(i) == Dbl(pts[NextIdx(pts, i)])
        onBoundary == \E i \in 1..n : OnSegment(p, A(i), B(i))
        crosses(i) ==
            /\ (A(i)[2] > p[2]) # (B(i)[2] > p[2])
            /\ IF B(i)[2] > A(i)[2]
               THEN (p[1] - A(i)[1]) * (B(i)[2] - A(i)[2])
                      < (p[2] - A(i)[2]) * (B(i)[1] - A(i)[1])
               ELSE (p[1] - A(i)[1]) * (B(i)[2] - A(i)[2])
                      > (p[2] - A(i)[2]) * (B(i)[1] - A(i)[1])
    IN  /\ ~onBoundary
        /\ Cardinality({i \in 1..n : crosses(i)}) % 2 = 1

RECURSIVE SumOver(_, _, _)
SumOver(f, i, n) ==
    IF i > n THEN 0 ELSE f[i] + SumOver(f, i + 1, n)

\* counting_region.centroid.x, doubled, as a fraction <<num, den>>, den > 0.
\* LineString of two points: the midpoint.  Polygon: the area centroid.
CentroidX2(pts) ==
    IF Len(pts) = 2
    THEN <<pts[1][1] + pts[2][1], 1>>
    ELSE LET n == Len(pts)
             c == [i \in 1..n |->
                     pts[i][1] * pts[NextIdx(pts, i)][2]
                       - pts[NextIdx(pts, i)][1] * pts[i][2]]
             sx == [i \in 1..n |-> (pts[i][1] + pts[NextIdx(pts, i)][1]) * c[i]]
             sumC == SumOver(c, 1, n)
             sumX == SumOver(sx, 1, n)
         IN  IF sumC > 0 THEN <<2 * sumX, 3 * sumC>>
                         ELSE <<-2 * sumX, -3 * sumC>>

\* The sign of (box[0] - prev_position[0]) *
\* (counting_region.centroid.x - prev_position[0]): the product times the
\* positive number 4 * den.  prev is a doubled position.
DirectionProduct(box, prev, pts) ==
    LET c == CentroidX2(pts)
    IN  (2 * box[1] - prev[1]) * (c[1] - prev[1] * c[2])

\* ------------------------------------------------------------- heatmap
\* center and radius of the disk drawn for a box (integer division).
DiskCenter(box) ==
    <<(box[1] + box[3]) \div 2, (box[2] + box[4]) \div 2>>

DiskRadius(box) ==
    Min(box[3] - box[1], box[4] - box[2]) \div 2

\* mask[y, x] restricted to the slice [y1:y2, x1:x2].
InMask(box, cell) ==
    LET c == DiskCenter(box)
        r == DiskRadius(box)
    IN  /\ box[1] <= cell[1] /\ cell[1] < box[3]
        /\ box[2] <= cell[2] /\ cell[2] < box[4]
        /\ (cell[1] - c[1]) * (cell[1] - c[1])
             + (cell[2] - c[2]) * (cell[2] - c[2]) <= r * r

\* a buffer that never decays: C2 does not hold of it
DecayNever(hm, d) ==
    hm

\* self.heatmap *= self.decay_factor, in fixed point
Decay(hm, d) ==
    [c \in Cells |-> (hm[c] * d[1]) \div d[2]]

\* the cells of the slice that the mask selects, for every box of the model
MaskOf ==
    [b \in Boxes |-> {c \in Cells : InMask(b, c)}]

\* heat added to the whole box rectangle, without the disk mask: C5 does not
\* hold of it
AccumulateRectangle(hm, box, d) ==
    LET add == HeatAdd * Scale(d)
    IN  [c \in Cells |->
           IF /\ box[1] <= c[1] /\ c[1] < box[3]
              /\ box[2] <= c[2] /\ c[2] < box[4]
           THEN hm[c] + add ELSE hm[c]]

\* heatmap[y1:y2, x1:x2] += 2 * mask[y1:y2, x1:x2]
Accumulate(hm, box, d) ==
    LET add == HeatAdd * Scale(d)
    IN  [c \in Cells |-> IF c \in MaskOf[box] THEN hm[c] + add ELSE hm[c]]

\* float((box[0] + box[2]) / 2), float((box[1] + box[3]) / 2), doubled.
Centroid2(box) ==
    <<box[1] + box[3], box[2] + box[4]>>

\* ------------------------------------------------------------------ state
VARIABLES
    count_reg_pts,      \* Heatmap.count_reg_pts
    decay_factor,       \* Heatmap.decay_factor
    initialized,        \* Heatmap.initialized
    heatmap,            \* Heatmap.heatmap (all zero while not initialized)
    track_history,      \* Heatmap.track_history: id -> list of doubled centroids
    in_counts,          \* Heatmap.in_counts
    out_counts,         \* Heatmap.out_counts
    count_ids,          \* Heatmap.count_ids (a list)
    class_wise_count,   \* Heatmap.class_wise_count: name -> [IN, OUT]
    raised,             \* the last generate_heatmap call ended in an exception
    nframes,            \* number of generate_heatmap calls so far
    frame,              \* the tracks argument of the last call
    count_log,          \* history: id -> [side, at]: the branch that counted it
                        \*   ("IN" / "OUT") and the number of the frame it ran in
    arrivals,           \* history: id -> every centroid appended for it, in order
    last_box,           \* history: id -> the box of its latest detection
    quiet_run,          \* history: length of the current run of frames without boxes
    quiet_base,         \* history: the heatmap when that run began
    init_exc            \* the exception the constructor ended in, or "none"

hvars ==
    <<count_reg_pts, decay_factor, initialized, heatmap, track_history, in_counts,
      out_counts, count_ids, class_wise_count, raised, nframes, frame, count_log,
      arrivals, last_box, quiet_run, quiet_base, init_exc>>

\* SpeedEstimator
VARIABLES
    reg_pts,            \* SpeedEstimator.reg_pts
    spdl,               \* SpeedEstimator.spdl
    trk_history,        \* SpeedEstimator.trk_history
    spd,                \* SpeedEstimator.spd: id -> speed, a fraction <<|dy|, dt>>
    trkd_ids,           \* SpeedEstimator.trkd_ids (a list)
    trk_pt,             \* SpeedEstimator.trk_pt: id -> time of the previous sample
    trk_pp,             \* SpeedEstimator.trk_pp: id -> previous point
    now,                \* the latest reading of time()
    exc,                \* the exception the last call ended in, or "none"
    ncalls,             \* number of calls so far
    call,               \* history: the last call and its arguments
    samples             \* history: id -> the <<point, time>> of every
                        \*   calculate_speed call for it, in order

svars ==
    <<reg_pts, spdl, trk_history, spd, trkd_ids, trk_pt, trk_pp, now, exc, ncalls,
      call, samples>>

vars ==
    <<hvars, svars>>

Range(q) ==
    {q[i] : i \in 1..Len(q)}

ZeroMap ==
    [c \in Cells |-> 0]

EmptyMap ==
    [k \in {} |-> 0]

\* dict.get with a default, for the id-keyed dictionaries
Get(f, k, dflt) ==
    IF k \in DOMAIN f THEN f[k] ELSE dflt

NoFrame ==
    [has_id |-> FALSE, dets |-> <<>>]

\* ------------------------------------------------- one detection of a frame
\* a history that refuses the newest centroid when full: C3 does not hold of it
AppendHistoryKeepOldest(line, c) ==
    IF Len(line) + 1 > HistCap THEN line ELSE Append(line, c)

\* track_line.append(centroid); if len(track_line) > 30: track_line.pop(0)
AppendHistory(line, c) ==
    IF Len(line) + 1 > HistCap THEN Tail(Append(line, c)) ELSE Append(line, c)

\* if self.names[cls] not in self.class_wise_count: ... = {"IN": 0, "OUT": 0}
StoreClass(cwc, name) ==
    IF name \in DOMAIN cwc THEN cwc ELSE (name :> [IN |-> 0, OUT |-> 0]) @@ cwc

\* a membership test that forgets count_ids: C1 does not hold of it
NotCountedAlways(ids, tid) ==
    TRUE

\* track_id not in self.count_ids
NotCounted(ids, tid) ==
    tid \notin Range(ids)

\* prev_position is not None
HasPrev(line) ==
    Len(line) > 1

\* self.track_history[track_id][-2]
PrevPosition(line) ==
    line[Len(line) - 1]

\* counting_region.contains(Point(track_line[-1]))
IsInside(pts, line) ==
    PolyContains(pts, line[Len(line)])

\* LineString([prev_position, (box[0], box[1])]).intersects(counting_line_segment)
CrossesLine(pts, prev, box) ==
    SegIntersects(prev, Dbl(<<box[1], box[2]>>), Dbl(pts[1]), Dbl(pts[2]))

\* the direction test of both modes: > 0 is IN
IsIn(box, prev, pts) ==
    DirectionProduct(box, prev, pts) > 0

\* an IN crossing booked on the OUT total: C8 does not hold of it
CountInAsOut(s, tid, name) ==
    [s EXCEPT !.count_ids = Append(@, tid),
              !.out_counts = @ + 1,
              !.class_wise_count[name].IN = @ + 1,
              !.count_log = (tid :> [side |-> "IN", at |-> s.at]) @@ @]

\* count_ids.append(track_id) and the branch that books the crossing as IN
CountIn(s, tid, name) ==
    [s EXCEPT !.count_ids = Append(@, tid),
              !.in_counts = @ + 1,
              !.class_wise_count[name].IN = @ + 1,
              !.count_log = (tid :> [side |-> "IN", at |-> s.at]) @@ @]

\* an OUT crossing booked on the IN value of the class bucket: C18 does not
\* hold of it
CountOutAsClassIn(s, tid, name) ==
    [s EXCEPT !.count_ids = Append(@, tid),
              !.out_counts = @ + 1,
              !.class_wise_count[name].IN = @ + 1,
              !.count_log = (tid :> [side |-> "OUT", at |-> s.at]) @@ @]

\* count_ids.append(track_id) and the branch that books the crossing as OUT
CountOut(s, tid, name) ==
    [s EXCEPT !.count_ids = Append(@, tid),
              !.out_counts = @ + 1,
              !.class_wise_count[name].OUT = @ + 1,
              !.count_log = (tid :> [side |-> "OUT", at |-> s.at]) @@ @]

\* counting that takes the only position of a new track for its previous one:
\* C14 does not hold of it
CountWithoutWarmUp(s, det, reg) ==
    LET tid == det.id
        box == det.box
        name == names[det.cls]
        line == s.track_history[tid]
        prev == line[Max(1, Len(line) - 1)]
    IN  IF reg.none THEN s
        ELSE IF Len(reg.pts) >= 3
        THEN IF IsInside(reg.pts, line) /\ NotCounted(s.count_ids, tid)
             THEN IF IsIn(box, prev, reg.pts)
                  THEN CountIn(s, tid, name)
                  ELSE CountOut(s, tid, name)
             ELSE s
        ELSE IF Len(reg.pts) = 2
        THEN IF NotCounted(s.count_ids, tid) /\ CrossesLine(reg.pts, prev, box)
             THEN IF IsIn(box, prev, reg.pts)
                  THEN CountIn(s, tid, name)
                  ELSE CountOut(s, tid, name)
             ELSE s
        ELSE s

\* lines 141-174: s already holds the appended history of det.id
Count(s, det, reg) ==
    LET tid == det.id
        box == det.box
        name == names[det.cls]
        line == s.track_history[tid]
    IN  IF reg.none THEN s
        ELSE IF Len(reg.pts) >= 3
        THEN IF HasPrev(line) /\ IsInside(reg.pts, line) /\ NotCounted(s.count_ids, tid)
             THEN IF IsIn(box, PrevPosition(line), reg.pts)
                  THEN CountIn(s, tid, name)
                  ELSE CountOut(s, tid, name)
             ELSE s
        ELSE IF Len(reg.pts) = 2
        THEN IF HasPrev(line) /\ NotCounted(s.count_ids, tid)
                  /\ CrossesLine(reg.pts, PrevPosition(line), box)
             THEN IF IsIn(box, PrevPosition(line), reg.pts)
                  THEN CountIn(s, tid, name)
                  ELSE CountOut(s, tid, name)
             ELSE s
        ELSE s

\* lines 118-174: the body of the loop for one (box, cls, track_id)
Detection(s, det, reg, d) ==
    LET tid == det.id
        c == Centroid2(det.box)
        s1 == [s EXCEPT
                 !.class_wise_count = StoreClass(@, names[det.cls]),
                 !.heatmap = Accumulate(@, det.box, d),
                 !.track_history =
                     (tid :> AppendHistory(Get(@, tid, <<>>), c)) @@ @,
                 !.arrivals = (tid :> Append(Get(@, tid, <<>>), c)) @@ @]
        s2 == Count(s1, det, reg)
    IN  [s2 EXCEPT !.last_box = (tid :> det.box) @@ @]

RECURSIVE Detections(_, _, _, _, _)
Detections(s, dets, i, reg, d) ==
    IF i > Len(dets) THEN s
    ELSE Detections(Detection(s, dets[i], reg, d), dets, i + 1, reg, d)

\* ------------------------------------------------------------------ inputs
\* one (box, cls, track_id): the tracker reports track 1 with either class and
\* the other tracks as class 0
Dets ==
    {d \in [box : Boxes, cls : Classes, id : TrackIds] : d.id = 1 \/ d.cls = 0}

\* the detections of one frame: every box has its own id, the boxes are listed
\* by increasing id, and no two of them are the same rectangle (the detector
\* suppresses duplicate boxes)
DetSeqs ==
    {q \in UNION {[1..n -> Dets] : n \in 0..MaxDets} :
        \A i, j \in 1..Len(q) : i < j => q[i].id < q[j].id /\ q[i].box # q[j].box}

\* tracks[0].boxes: has_id = FALSE stands for boxes.id is None
Frames ==
    {NoFrame} \cup {[has_id |-> TRUE, dets |-> q] : q \in DetSeqs}

\* ------------------------------------------------------------- operations
\* line 85: LineString(self.count_reg_pts) of a single point; shapely accepts no
\* line of one coordinate and raises
InitRaises(reg) ==
    ~reg.none /\ Len(reg.pts) = 1

\* Heatmap.__init__
HeatInit(reg, d) ==
    /\ init_exc = IF InitRaises(reg) THEN "GEOSException" ELSE "none"
    /\ count_reg_pts = reg
    /\ decay_factor = d
    /\ initialized = FALSE
    /\ heatmap = ZeroMap
    /\ track_history = EmptyMap
    /\ in_counts = 0
    /\ out_counts = 0
    /\ count_ids = <<>>
    /\ class_wise_count = EmptyMap
    /\ raised = FALSE
    /\ nframes = 0
    /\ frame = NoFrame
    /\ count_log = EmptyMap
    /\ arrivals = EmptyMap
    /\ last_box = EmptyMap
    /\ quiet_run = 0
    /\ quiet_base = ZeroMap

\* zip(boxes, clss) with boxes = None raises TypeError (lines 103-107, 177)
RaisesOnNone(f) ==
    ~f.has_id

\* Heatmap.generate_heatmap(im0, tracks), on an object the constructor returned
generate_heatmap(f) ==
    init_exc = "none" /\
    LET s0 == [heatmap |-> Decay(heatmap, decay_factor),
               track_history |-> track_history,
               in_counts |-> in_counts, out_counts |-> out_counts,
               count_ids |-> count_ids, class_wise_count |-> class_wise_count,
               count_log |-> count_log, arrivals |-> arrivals,
               last_box |-> last_box, at |-> nframes + 1]
        quiet == ~f.has_id \/ Len(f.dets) = 0
    IN  \E s \in {IF f.has_id /\ Len(f.dets) > 0
                  THEN Detections(s0, f.dets, 1, count_reg_pts, decay_factor)
                  ELSE s0} :
          /\ initialized' = TRUE
          /\ heatmap' = s.heatmap
          /\ track_history' = s.track_history
          /\ in_counts' = s.in_counts
          /\ out_counts' = s.out_counts
          /\ count_ids' = s.count_ids
          /\ class_wise_count' = s.class_wise_count
          /\ raised' = RaisesOnNone(f)
          /\ nframes' = nframes + 1
          /\ frame' = f
          /\ count_log' = s.count_log
          /\ arrivals' = s.arrivals
          /\ last_box' = s.last_box
          /\ quiet_run' = IF quiet THEN quiet_run + 1 ELSE 0
          /\ quiet_base' = IF quiet /\ quiet_run > 0 THEN quiet_base
                           ELSE IF quiet THEN heatmap ELSE ZeroMap
          /\ UNCHANGED <<count_reg_pts, decay_factor, init_exc>>

\* ---------------------------------------------------------- SpeedEstimator
DefaultRegPts ==
    << <<20, 400>>, <<1260, 400>> >>

DefaultSpdl ==
    10

\* track[-1] of a calculate_speed call
Points ==
    { <<20, 400>>, <<100, 400>>, <<100, 405>>, <<100, 410>>, <<100, 420>>,
      <<1260, 400>> }

\* how far time() moves between two calls
ClockSteps ==
    {0, 1, 2}

NoCall ==
    [op |-> "none"]

\* SpeedEstimator.__init__
SpeedInit ==
    /\ reg_pts = DefaultRegPts
    /\ spdl = DefaultSpdl
    /\ trk_history = EmptyMap
    /\ spd = EmptyMap
    /\ trkd_ids = <<>>
    /\ trk_pt = EmptyMap
    /\ trk_pp = EmptyMap
    /\ now = 1
    /\ exc = "none"
    /\ ncalls = 0
    /\ call = NoCall
    /\ samples = EmptyMap

Abs(x) ==
    IF x < 0 THEN -x ELSE x

\* an x test that lets every position through: C16 does not hold of it
XInRangeAlways(p) ==
    TRUE

\* self.reg_pts[0][0] < track[-1][0] < self.reg_pts[1][0]
XInRange(p) ==
    reg_pts[1][1] < p[1] /\ p[1] < reg_pts[2][1]

\* ref - self.spdl < track[-1][1] < ref + self.spdl
InBand(y, ref) ==
    ref - spdl < y /\ y < ref + spdl

\* direction: "known" near either reference y, else "unknown"
Direction(p) ==
    IF InBand(p[2], reg_pts[2][2]) THEN "known"
    ELSE IF InBand(p[2], reg_pts[1][2]) THEN "known"
    ELSE "unknown"

\* self.trk_pt.get(trk_id) != 0
PrevTimeNotZero(id) ==
    IF id \in DOMAIN trk_pt THEN trk_pt[id] # 0 ELSE TRUE

\* a finalization test that always passes: C4 does not hold of it
NotFinalizedAlways(id) ==
    TRUE

\* trk_id not in self.trkd_ids
NotFinalized(id) ==
    id \notin Range(trkd_ids)

\* a condition that forgets the finalized list: C19 does not hold of it
EligibleAgain(id, p) ==
    PrevTimeNotZero(id) /\ Direction(p) # "unknown"

\* the condition of line 65
Eligible(id, p) ==
    PrevTimeNotZero(id) /\ Direction(p) # "unknown" /\ NotFinalized(id)

\* np.abs(track[-1][1] - self.trk_pp[trk_id][1]) / time_difference
SpeedOf(p, prev, td) ==
    <<Abs(p[2] - prev[2]), td>>

\* lines 69-70
RecordSpeed(id, p, t) ==
    IF t - trk_pt[id] > 0
    THEN (id :> SpeedOf(p, trk_pp[id], t - trk_pt[id])) @@ spd
    ELSE spd

\* SpeedEstimator.calculate_speed(trk_id, track), with time() reading t
calculate_speed(id, p, t) ==
    /\ now' = t
    /\ ncalls' = ncalls + 1
    /\ call' = [op |-> "calculate_speed", id |-> id, p |-> p, t |-> t,
                 had_spd |-> id \in DOMAIN spd]
    /\ samples' = (id :> Append(Get(samples, id, <<>>), <<p, t>>)) @@ samples
    /\ UNCHANGED <<reg_pts, spdl, trk_history>>
    /\ IF ~XInRange(p)
       THEN /\ exc' = "none"
            /\ UNCHANGED <<spd, trkd_ids, trk_pt, trk_pp>>
       ELSE IF Eligible(id, p) /\ id \notin DOMAIN trk_pt
       THEN \* self.trk_pt[trk_id] raises KeyError after the append
            /\ exc' = "KeyError"
            /\ trkd_ids' = Append(trkd_ids, id)
            /\ UNCHANGED <<spd, trk_pt, trk_pp>>
       ELSE /\ exc' = "none"
            /\ trkd_ids' = IF Eligible(id, p) THEN Append(trkd_ids, id) ELSE trkd_ids
            /\ spd' = IF Eligible(id, p) THEN RecordSpeed(id, p, t) ELSE spd
            /\ trk_pt' = (id :> t) @@ trk_pt
            /\ trk_pp' = (id :> p) @@ trk_pp

\* the frames given to estimate_speed
SpeedFrames ==
    {f \in Frames : Len(f.dets) <= 1 /\ \A d \in {f.dets[i] : i \in 1..Len(f.dets)} : d.cls = 0}

\* SpeedEstimator.estimate_speed(im0, tracks): the first pass of the loop reads
\* the name track_id, which nothing defines, before it changes anything
estimate_speed(f) ==
    /\ ncalls' = ncalls + 1
    /\ call' = [op |-> "estimate_speed", f |-> f]
    /\ exc' = IF f.has_id /\ Len(f.dets) > 0 THEN "NameError" ELSE "none"
    /\ UNCHANGED <<reg_pts, spdl, trk_history, spd, trkd_ids, trk_pt, trk_pp, now,
                   samples>>

Init ==
    /\ \E reg \in Regions, d \in DecayFactors : HeatInit(reg, d)
    /\ SpeedInit

Next ==
    /\ \E f \in Frames : nframes < MaxFrames /\ generate_heatmap(f)
    /\ UNCHANGED svars

InitSpeed ==
    /\ HeatInit(NoRegion, <<1, 1>>)
    /\ SpeedInit

CalculateSpeed ==
    /\ ncalls < MaxCalls
    /\ \E id \in TrackIds, p \in Points, dt \in ClockSteps :
          calculate_speed(id, p, now + dt)
    /\ UNCHANGED hvars

EstimateSpeed ==
    /\ ncalls < MaxCalls
    /\ \E f \in SpeedFrames : estimate_speed(f)
    /\ UNCHANGED hvars

NextSpeed ==
    CalculateSpeed \/ EstimateSpeed

SpecSpeed ==
    InitSpeed /\ [][NextSpeed]_vars

Spec ==
    Init /\ [][Next]_vars

\* ---- long runs of one track, for the history of 30 positions
\* the number of times a track changed its position
Moves(arr) ==
    Cardinality({i \in 1..(Len(arr) - 1) : arr[i] # arr[i + 1]})

\* frames that show one track of class 0, the same in every frame, which changes
\* its box at most MaxMoves times
HistFrames ==
    {f \in Frames :
        /\ f.has_id /\ Len(f.dets) = 1 /\ f.dets[1].cls = 0
        /\ arrivals = EmptyMap \/ f.dets[1].id \in DOMAIN arrivals
        /\ Moves(Append(Get(arrivals, f.dets[1].id, <<>>), Centroid2(f.dets[1].box)))
             <= MaxMoves}

\* no counting region, no decay: the buffer stays exact over a long run
InitHist ==
    /\ HeatInit(NoRegion, <<1, 1>>)
    /\ SpeedInit

NextHist ==
    /\ \E f \in HistFrames : nframes < MaxHistFrames /\ generate_heatmap(f)
    /\ UNCHANGED svars

SpecHist ==
    InitHist /\ [][NextHist]_vars

\* ------------------------------------------------------------------ claims
DetsOf(f) ==
    {f.dets[i] : i \in 1..Len(f.dets)}

IsPolygonMode ==
    ~count_reg_pts.none /\ Len(count_reg_pts.pts) >= 3

IsLineMode ==
    ~count_reg_pts.none /\ Len(count_reg_pts.pts) = 2

NoDuplicates(q) ==
    Cardinality(Range(q)) = Len(q)

\* a per-class counter, read as 0 while the class has no bucket
ClassVal(cwc, n, sd) ==
    IF n \in DOMAIN cwc THEN cwc[n][sd] ELSE 0

\* the crossing condition of detection d, given the history th that holds d
Requalifies(reg, th, d) ==
    /\ ~reg.none
    /\ Len(th[d.id]) > 1
    /\ IF Len(reg.pts) >= 3
       THEN PolyContains(reg.pts, th[d.id][Len(th[d.id])])
       ELSE /\ Len(reg.pts) = 2
            /\ SegIntersects(th[d.id][Len(th[d.id]) - 1], Dbl(<<d.box[1], d.box[2]>>),
                             Dbl(reg.pts[1]), Dbl(reg.pts[2]))

\* C1 (as stated): a frame whose detected tracks are all in count_ids already,
\* one of them satisfying the crossing condition again, leaves in_counts,
\* out_counts, class_wise_count and count_ids unchanged.
C1_RecountLeavesAllUnchanged ==
    [][(/\ DetsOf(frame') # {}
        /\ \A d \in DetsOf(frame') : d.id \in Range(count_ids)
        /\ \E d \in DetsOf(frame') : Requalifies(count_reg_pts, track_history', d))
       => UNCHANGED <<in_counts, out_counts, class_wise_count, count_ids>>]_vars

\* C1 (amended): every frame appends to count_ids exactly the ids it counts, none
\* of which was in count_ids before, so no id is ever held twice; in_counts +
\* out_counts grows by the number of ids appended and the per-class counters of
\* each class by the number of appended ids detected with that class; hence a
\* track already in count_ids adds nothing again.  class_wise_count itself may
\* still gain a bucket of zeros for a class seen for the first time.
C1_AtMostOnce ==
    [][LET new == Range(count_ids') \ Range(count_ids)
           D == DetsOf(frame')
       IN  /\ NoDuplicates(count_ids')
           /\ Len(count_ids') = Len(count_ids) + Cardinality(new)
           /\ SubSeq(count_ids', 1, Len(count_ids)) = count_ids
           /\ new \subseteq {d.id : d \in D}
           /\ in_counts' + out_counts' = in_counts + out_counts + Cardinality(new)
           /\ \A c \in Classes :
                ClassVal(class_wise_count', names[c], "IN")
                  + ClassVal(class_wise_count', names[c], "OUT")
                = ClassVal(class_wise_count, names[c], "IN")
                  + ClassVal(class_wise_count, names[c], "OUT")
                  + Cardinality({d \in D : d.id \in new /\ d.cls = c})
           /\ DOMAIN class_wise_count \subseteq DOMAIN class_wise_count'
           /\ ((\A d \in D : d.id \in Range(count_ids))
                 => /\ UNCHANGED <<in_counts, out_counts, count_ids>>
                    /\ \A n \in DOMAIN class_wise_count :
                         class_wise_count'[n] = class_wise_count[n]
                    /\ \A n \in DOMAIN class_wise_count' \ DOMAIN class_wise_count :
                         class_wise_count'[n] = [IN |-> 0, OUT |-> 0])]_vars

\* C1 witness: the last frame detected a track that had been counted in an
\* earlier frame and that satisfied the crossing condition again.
C1_Witness ==
    \E d \in DetsOf(frame) :
        /\ d.id \in DOMAIN count_log
        /\ count_log[d.id].at < nframes
        /\ Requalifies(count_reg_pts, track_history, d)

\* C2: after N consecutive frames without detections every cell holds its value
\* from before those frames times decay_factor^N.
C2_DecayPower ==
    quiet_run > 0 =>
        \A c \in Cells :
            heatmap[c] * Pow(decay_factor[2], quiet_run)
              = quiet_base[c] * Pow(decay_factor[1], quiet_run)

\* C2 witness: two frames without detections in a row on a buffer that held heat.
C2_Witness ==
    /\ quiet_run >= 2
    /\ \E c \in Cells : quiet_base[c] > 0 /\ heatmap[c] > 0

\* the disk of the claim as stated: radius half the smaller box dimension around
\* the box centre, both exact (compared doubled), within the box rectangle
CoversExact(box, cell) ==
    LET m == Min(box[3] - box[1], box[4] - box[2])
    IN  /\ box[1] <= cell[1] /\ cell[1] < box[3]
        /\ box[2] <= cell[2] /\ cell[2] < box[4]
        /\ (2 * cell[1] - (box[1] + box[3])) * (2 * cell[1] - (box[1] + box[3]))
             + (2 * cell[2] - (box[2] + box[4])) * (2 * cell[2] - (box[2] + box[4]))
           <= m * m

\* the disk of the amended claim: centre and radius rounded down to integers
CoversTruncated(box, cell) ==
    LET cx == (box[1] + box[3]) \div 2
        cy == (box[2] + box[4]) \div 2
        r == Min(box[3] - box[1], box[4] - box[2]) \div 2
    IN  /\ cell[1] \in box[1]..(box[3] - 1)
        /\ cell[2] \in box[2]..(box[4] - 1)
        /\ (cell[1] - cx) * (cell[1] - cx) + (cell[2] - cy) * (cell[2] - cy) <= r * r

SameBoxTwice ==
    /\ nframes = 2
    /\ Len(frame.dets) = 1
    /\ DOMAIN arrivals = {frame.dets[1].id}
    /\ arrivals[frame.dets[1].id]
         = <<Centroid2(frame.dets[1].box), Centroid2(frame.dets[1].box)>>

Anchor2(box) ==
    Dbl(<<box[1], box[2]>>)

\* C7 (as stated): in line mode an uncounted track is counted in a frame exactly
\* when the segment from its previous top-left corner to its current top-left
\* corner intersects the counting line.
C7_AnchorSegmentDecides ==
    [][IsLineMode =>
         \A d \in DetsOf(frame') :
             d.id \notin Range(count_ids) =>
                 ((d.id \in Range(count_ids'))
                    <=> (/\ d.id \in DOMAIN last_box
                         /\ SegIntersects(Anchor2(last_box[d.id]), Anchor2(d.box),
                                          Dbl(count_reg_pts.pts[1]),
                                          Dbl(count_reg_pts.pts[2]))))]_vars

\* the detections of the frame just processed whose track has a previous
\* position and a centroid inside the polygon for the first time
FirstInside(f, arr, pts) ==
    {d \in DetsOf(f) :
        /\ Len(arr[d.id]) >= 2
        /\ PolyContains(pts, arr[d.id][Len(arr[d.id])])
        /\ \A k \in 2..(Len(arr[d.id]) - 1) : ~PolyContains(pts, arr[d.id][k])}

Occurrences(q, x) ==
    Cardinality({i \in 1..Len(q) : q[i] = x})

\* C8: in polygon mode, the first frame in which a track has a previous position
\* and its centroid inside the polygon counts it once: one of in_counts and
\* out_counts grows by 1 for it, the same side of the class bucket of that
\* detection grows by 1, and its id is in count_ids exactly once; nothing else
\* is counted.
C8_PolygonCountsOnce ==
    [][IsPolygonMode =>
         LET Q == FirstInside(frame', arrivals', count_reg_pts.pts)
             QI == {d \in Q : d.id \in DOMAIN count_log' /\ count_log'[d.id].side = "IN"}
             QO == {d \in Q : d.id \in DOMAIN count_log' /\ count_log'[d.id].side = "OUT"}
         IN  /\ QI \cup QO = Q
             /\ in_counts' = in_counts + Cardinality(QI)
             /\ out_counts' = out_counts + Cardinality(QO)
             /\ \A d \in Q : /\ d.id \notin Range(count_ids)
                             /\ Occurrences(count_ids', d.id) = 1
             /\ \A c \in Classes :
                  /\ ClassVal(class_wise_count', names[c], "IN")
                       = ClassVal(class_wise_count, names[c], "IN")
                         + Cardinality({d \in QI : d.cls = c})
                  /\ ClassVal(class_wise_count', names[c], "OUT")
                       = ClassVal(class_wise_count, names[c], "OUT")
                         + Cardinality({d \in QO : d.cls = c})]_vars

\* C8 witness: a frame counted two tracks of the same class entering the
\* polygon, one IN and one OUT.
C8_Witness ==
    /\ IsPolygonMode
    /\ \E d, e \in FirstInside(frame, arrivals, count_reg_pts.pts) :
          /\ d.cls = e.cls
          /\ count_log[d.id] = [side |-> "IN", at |-> nframes]
          /\ count_log[e.id] = [side |-> "OUT", at |-> nframes]
          /\ class_wise_count[names[d.cls]] = [IN |-> 1, OUT |-> 1]

\* the detections the frame just processed has counted
NewlyCounted(f, before, after) ==
    {d \in DetsOf(f) : d.id \notin Range(before) /\ d.id \in Range(after)}

\* the direction test of the claim: both positions are history entries
ClaimedIn(line, pts) ==
    LET cur == line[Len(line)]
        prev == line[Len(line) - 1]
        c == CentroidX2(pts)
    IN  (cur[1] - prev[1]) * (c[1] - prev[1] * c[2]) > 0

\* C9 (as stated): a counted crossing is IN exactly when
\* (current.x - previous.x) * (region_centroid.x - previous.x) > 0 for the last
\* two history entries of the track, and OUT otherwise.
C9_DirectionFromHistory ==
    [][LET N == NewlyCounted(frame', count_ids, count_ids')
           NI == {d \in N : ClaimedIn(track_history'[d.id], count_reg_pts.pts)}
       IN  /\ in_counts' = in_counts + Cardinality(NI)
           /\ out_counts' = out_counts + Cardinality(N \ NI)
           /\ \A d \in N : (count_log'[d.id].side = "IN") <=> (d \in NI)]_vars

\* C10 (as stated): a frame without track ids completes normally: the buffer is
\* decayed once, the counters and histories are unchanged, and no frame leaves
\* the session in an error state.
C10_NoIdsFrameCompletes ==
    [][/\ ~raised'
       /\ ~frame'.has_id =>
            /\ heatmap' = Decay(heatmap, decay_factor)
            /\ UNCHANGED <<in_counts, out_counts, count_ids, class_wise_count,
                           track_history>>]_vars

\* C3: every entry of track_history has between 1 and 30 positions, and they are
\* the latest min(n, 30) centroids of that track, in the order of arrival.
C3_HistoryBound ==
    /\ DOMAIN track_history = DOMAIN arrivals
    /\ \A t \in DOMAIN track_history :
         LET h == track_history[t]
             a == arrivals[t]
         IN  /\ 1 <= Len(h) /\ Len(h) <= 30
             /\ Len(h) = Min(Len(a), 30)
             /\ h = SubSeq(a, Len(a) - Len(h) + 1, Len(a))

\* C3 witness: a 31st centroid has arrived and the one evicted, the oldest,
\* differs from the one kept last.
C3_Witness ==
    \E t \in DOMAIN track_history :
        /\ Len(arrivals[t]) >= 31
        /\ Len(track_history[t]) = 30
        /\ arrivals[t][Len(arrivals[t]) - 30] # arrivals[t][Len(arrivals[t])]

\* C4: once spd holds a speed for a track, no later call changes or removes it.
C4_SpeedFinalizedOnce ==
    [][\A id \in DOMAIN spd : id \in DOMAIN spd' /\ spd'[id] = spd[id]]_vars

\* two fractions <<n, d>> that are different numbers
DifferentSpeed(a, b) ==
    a[1] * b[2] # b[1] * a[2]

\* C4 witness: a track whose speed was recorded by an earlier call was sampled
\* again inside the band, later, at a point that would give another speed.
C4_Witness ==
    /\ call.op = "calculate_speed"
    /\ call.had_spd
    /\ call.id \in DOMAIN spd
    /\ Len(samples[call.id]) >= 3
    /\ XInRange(call.p) /\ Direction(call.p) = "known"
    /\ LET q == samples[call.id][Len(samples[call.id]) - 1]
       IN  /\ XInRange(q[1])
           /\ call.t > q[2]
           /\ DifferentSpeed(SpeedOf(call.p, q[1], call.t - q[2]), spd[call.id])

\* the band of the claim: x strictly inside, y at most spdl_dist_thresh away
\* from a reference y
InBandInclusive(p) ==
    /\ XInRange(p)
    /\ \/ Abs(p[2] - reg_pts[1][2]) <= spdl
       \/ Abs(p[2] - reg_pts[2][2]) <= spdl

\* C6 (as stated): when the first two samples of a track are inside the band and
\* time has passed between them, the second call has recorded |dy| / dt, and the
\* value stays.
C6_SpeedFromTwoSamples ==
    \A id \in DOMAIN samples :
        LET q == samples[id]
        IN  (/\ Len(q) >= 2
             /\ InBandInclusive(q[1][1]) /\ InBandInclusive(q[2][1])
             /\ q[2][2] - q[1][2] > 0)
            => /\ id \in DOMAIN spd
               /\ ~DifferentSpeed(spd[id], <<Abs(q[2][1][2] - q[1][1][2]), q[2][2] - q[1][2]>>)

\* C11 (as stated): a Heatmap made with fewer than 2 region points is
\* constructed without an error and never counts: in_counts and out_counts stay
\* 0 and count_ids stays empty over any frames.
C11_InvalidRegionDisablesCounting ==
    (~count_reg_pts.none /\ Len(count_reg_pts.pts) < 2)
        => /\ init_exc = "none"
           /\ in_counts = 0 /\ out_counts = 0 /\ count_ids = <<>>

\* C12 (as stated): a call for a track that is not finalized, has a recorded
\* sample time and a known direction, made with elapsed time <= 0, records no
\* speed and leaves the track out of trkd_ids, so that a later call can still
\* record its speed.
C12_DegenerateDeltaRetried ==
    [][(/\ call'.op = "calculate_speed"
        /\ XInRange(call'.p) /\ Direction(call'.p) = "known"
        /\ call'.id \notin Range(trkd_ids)
        /\ call'.id \in DOMAIN trk_pt
        /\ trk_pt[call'.id] # 0
        /\ call'.t - trk_pt[call'.id] <= 0)
       => /\ exc' = "none"
          /\ spd' = spd
          /\ call'.id \notin Range(trkd_ids')]_vars

\* a sample taken near a reference line: x in range and direction known
NearLine(p) ==
    XInRange(p) /\ Direction(p) = "known"

\* C13 (as stated): a sample with x in range and y outside both bands changes
\* nothing, and a speed, when it is recorded, is |dy| / dt between the sample
\* of that call and the latest earlier sample of the track taken near a line.
C13_SpeedBetweenInBandSamples ==
    [][call'.op = "calculate_speed" =>
         /\ (XInRange(call'.p) /\ Direction(call'.p) = "unknown")
               => UNCHANGED <<spd, trkd_ids, trk_pt, trk_pp>>
         /\ \A id \in DOMAIN spd' \ DOMAIN spd :
               LET q == samples'[id]
                   near == {i \in 1..(Len(q) - 1) : NearLine(q[i][1])}
               IN  /\ NearLine(q[Len(q)][1])
                   /\ near # {}
                   /\ LET k == CHOOSE i \in near : \A j \in near : j <= i
                      IN  ~DifferentSpeed(spd'[id],
                                         <<Abs(q[Len(q)][1][2] - q[k][1][2]),
                                           q[Len(q)][2] - q[k][2]>>)]_vars

\* the detections of a frame whose track id had no history before the frame
FirstSeen(f, before) ==
    {d \in DetsOf(f) : d.id \notin DOMAIN before}

\* C14: a frame never counts a track it shows for the first time: the id is not
\* appended to count_ids, every id the frame appends belongs to a track seen
\* before, the totals grow by the number of those ids only, a frame that shows
\* only new tracks leaves in_counts, out_counts, count_ids and every per-class
\* value as they were, and the frame does not raise.
C14_WarmUpNotCounted ==
    [][LET F == FirstSeen(frame', track_history)
           new == Range(count_ids') \ Range(count_ids)
       IN  /\ \A d \in F : /\ d.id \notin Range(count_ids')
                           /\ d.id \notin DOMAIN count_log'
                           /\ Len(track_history'[d.id]) = 1
           /\ new \subseteq {d.id : d \in DetsOf(frame') \ F}
           /\ in_counts' + out_counts' = in_counts + out_counts + Cardinality(new)
           /\ (F # {} /\ F = DetsOf(frame'))
                 => /\ UNCHANGED <<in_counts, out_counts, count_ids>>
                    /\ \A n \in DOMAIN class_wise_count' :
                         class_wise_count'[n]
                           = Get(class_wise_count, n, [IN |-> 0, OUT |-> 0])
           /\ F # {} => ~raised']_vars

\* C14 witness: in polygon mode a frame showed a new track with its centroid
\* inside the polygon, did not count it, and counted another track.
C14_Witness ==
    /\ IsPolygonMode
    /\ \E d, e \in DetsOf(frame) :
          /\ Len(arrivals[d.id]) = 1
          /\ PolyContains(count_reg_pts.pts, arrivals[d.id][1])
          /\ d.id \notin Range(count_ids)
          /\ e.id \in DOMAIN count_log
          /\ count_log[e.id].at = nframes

\* C15 (as stated): the first call for a track without a recorded sample time,
\* made near a line, raises nothing, records no speed, finalizes nothing and
\* stores the time and the position of the sample.
C15_FirstSampleIsWarmUp ==
    [][(/\ call'.op = "calculate_speed"
        /\ call'.id \notin DOMAIN trk_pt
        /\ NearLine(call'.p))
       => /\ exc' = "none"
          /\ spd' = spd
          /\ trkd_ids' = trkd_ids
          /\ call'.id \in DOMAIN trk_pt' /\ trk_pt'[call'.id] = call'.t
          /\ call'.id \in DOMAIN trk_pp' /\ trk_pp'[call'.id] = call'.p]_vars

\* C16: a call whose x is not strictly between reg_pts[0].x and reg_pts[1].x
\* leaves spd, trkd_ids, trk_pt and trk_pp as they were and raises nothing.
C16_OutOfRangeIsNoOp ==
    [][(/\ call'.op = "calculate_speed"
        /\ ~(reg_pts[1][1] < call'.p[1] /\ call'.p[1] < reg_pts[2][1]))
       => /\ UNCHANGED <<spd, trkd_ids, trk_pt, trk_pp>>
          /\ exc' = "none"]_vars

\* C16 witness: a track with a stored sample, not finalized, was sampled with x
\* on the upper bound and then, later and within the band, with x on the lower
\* bound; with x in range the last call would have recorded a speed.
C16_Witness ==
    /\ call.op = "calculate_speed"
    /\ call.p[1] = reg_pts[1][1]
    /\ Direction(call.p) = "known"
    /\ call.id \in DOMAIN trk_pt
    /\ trk_pt[call.id] # 0 /\ call.t > trk_pt[call.id]
    /\ call.id \notin Range(trkd_ids)
    /\ \E i \in 1..(Len(samples[call.id]) - 1) :
          samples[call.id][i][1][1] = reg_pts[2][1]

\* C17 (as stated): estimate_speed on a frame with track ids raises nothing,
\* appends the centroid of every detection to the history of its own track id,
\* bounded to 30, and leaves the other histories as they were.
C17_EstimateSpeedFrameStep ==
    [][(call'.op = "estimate_speed" /\ call'.f.has_id)
       => /\ exc' = "none"
          /\ \A d \in DetsOf(call'.f) :
                /\ d.id \in DOMAIN trk_history'
                /\ trk_history'[d.id]
                     = AppendHistory(Get(trk_history, d.id, <<>>), Centroid2(d.box))
          /\ \A id \in DOMAIN trk_history \ {d.id : d \in DetsOf(call'.f)} :
                id \in DOMAIN trk_history' /\ trk_history'[id] = trk_history[id]]_vars

\* the sum of one side of the buckets ns of class_wise_count
RECURSIVE SideSum(_, _, _)
SideSum(cwc, ns, sd) ==
    IF ns = {} THEN 0
    ELSE LET n == CHOOSE x \in ns : TRUE
         IN  cwc[n][sd] + SideSum(cwc, ns \ {n}, sd)

\* C18: in every state in_counts + out_counts is the number of ids in
\* count_ids, in_counts is the sum of the per-class IN values and out_counts
\* the sum of the per-class OUT values; no frame decreases a total or a
\* per-class value, removes a bucket or removes an id from count_ids.
C18_CounterConsistency ==
    /\ [](/\ in_counts + out_counts = Len(count_ids)
          /\ in_counts = SideSum(class_wise_count, DOMAIN class_wise_count, "IN")
          /\ out_counts = SideSum(class_wise_count, DOMAIN class_wise_count, "OUT"))
    /\ [][/\ in_counts' >= in_counts
          /\ out_counts' >= out_counts
          /\ Len(count_ids') >= Len(count_ids)
          /\ SubSeq(count_ids', 1, Len(count_ids)) = count_ids
          /\ \A n \in DOMAIN class_wise_count :
                /\ n \in DOMAIN class_wise_count'
                /\ class_wise_count'[n].IN >= class_wise_count[n].IN
                /\ class_wise_count'[n].OUT >= class_wise_count[n].OUT]_vars

\* C18 witness: two tracks of different classes have been counted, one IN and
\* one OUT, followed by a frame that counted nothing.
C18_Witness ==
    /\ in_counts = 1 /\ out_counts = 1
    /\ Len(count_ids) = 2
    /\ \E m, n \in DOMAIN class_wise_count :
          /\ m # n
          /\ class_wise_count[m] = [IN |-> 1, OUT |-> 0]
          /\ class_wise_count[n] = [IN |-> 0, OUT |-> 1]
    /\ \A t \in DOMAIN count_log : count_log[t].at < nframes

\* C19: every track id with an entry in spd is in trkd_ids, trkd_ids holds no
\* id twice, and after a call that completed normally trk_pt and trk_pp have
\* entries for the same track ids.
C19_SpeedBookkeeping ==
    /\ DOMAIN spd \subseteq Range(trkd_ids)
    /\ NoDuplicates(trkd_ids)
    /\ exc = "none" => DOMAIN trk_pt = DOMAIN trk_pp

\* C19 witness: one track has its speed and is finalized once, and the last
\* call completed normally and stored the first sample of another track.
C19_Witness ==
    /\ exc = "none"
    /\ call.op = "calculate_speed"
    /\ Len(samples[call.id]) = 1
    /\ call.id \in DOMAIN trk_pt /\ call.id \in DOMAIN trk_pp
    /\ \E id \in DOMAIN spd :
          /\ id # call.id
          /\ Occurrences(trkd_ids, id) = 1
          /\ id \in DOMAIN trk_pt

====
